---------------------------- MODULE Spec2Model ----------------------------
(***************************************************************************)
(* Noter: five Lambda request handlers (list, get-by-id, create, update,   *)
(* delete) over one DynamoDB table, and the front end's API service with   *)
(* its in-memory fallback store.                                           *)
(*                                                                         *)
(* Each handler invocation runs in its own slot.  The synchronous part of  *)
(* a handler (up to its first `await docClient.send`) is one step; every   *)
(* store command is applied to the table in one atomic step of its own, so *)
(* invocations interleave exactly at the store commands.  A store command  *)
(* may fail (the send throws): it then has no effect on the table.         *)
(*                                                                         *)
(* Items and JSON objects are functions from attribute names to values; an *)
(* attribute that is undefined is simply not in the DOMAIN.  Timestamps    *)
(* are the millisecond clock readings behind `new Date().toISOString()`    *)
(* (a fixed-width format, ordered like the reading itself).                *)
(***************************************************************************)
EXTENDS Integers, Sequences, FiniteSets, TLC

\* ------------------------------------------------------------------ bounds
\* Concurrent handler invocations.
NProcs == 2
\* Notes the create handler may create (uuids handed out).
MaxNotes == 1
\* Last reading of the millisecond clock.
MaxClock == 1
\* Length the fallback store's array may grow to.
MaxMockNotes == 4
\* Calls made to the fallback store.
MaxMockCalls == 3

VARIABLES
    store,          \* the noter_db table: id -> item, for the ids present
    clock,          \* the millisecond clock read by new Date() / Date.now()
    nextUuid,       \* number of uuids handed out by uuidv4()
    h,              \* handler invocations in flight, per slot
    resp,           \* the response returned by the step just taken, if any
    deleted,        \* ids for which a delete has responded with success
    origin,         \* id -> the create input, while no later write touched id
    mockNotesData,  \* the fallback store's array (api.ts)
    mockResp,       \* the result of the fallback store's last call
    mockCalls,      \* number of calls made to the fallback store
    nodeEnv,        \* process.env.NODE_ENV of the front end's build
    apiUrl,         \* process.env.REACT_APP_API_URL of the front end's build
    svcResp,        \* the result of noteService's last call
    home,           \* the Home view
    editor          \* the NoteEditor view

vars == <<store, clock, nextUuid, h, resp, deleted, origin, mockNotesData, mockResp,
         mockCalls, nodeEnv, apiUrl, svcResp, home, editor>>
backVars == <<store, clock, nextUuid, h, resp, deleted, origin>>
envVars == <<nodeEnv, apiUrl>>
uiVars == <<home, editor>>
svcVars == <<envVars, svcResp>>
mockVars == <<mockNotesData, mockResp, mockCalls, svcVars, uiVars>>

Procs == 1..NProcs

\* ------------------------------------------------------------ JSON values
NoItem == [k \in {} |-> ""]

Fields == {"id", "title", "content", "createdAt", "updatedAt"}

\* `!x` for a property x of a destructured object: undefined or "".
Truthy(obj, k) == k \in DOMAIN obj /\ obj[k] # ""

Obj1(k, v) == [x \in {k} |-> v]
Obj2(k1, v1, k2, v2) == [x \in {k1, k2} |-> IF x = k1 THEN v1 ELSE v2]

\* uuidv4(): the n-th identifier handed out; distinct for distinct n.
Uuid(n) == "u" \o ToString(n)

\* Date.now().toString() for the clock reading t.
DateNowString(t) == "17000000000" \o ToString(t)

\* event.body: absent, not JSON, the JSON value null, or a JSON object.
Body(kind, obj) == [kind |-> kind, obj |-> obj]
NoBody == Body("missing", NoItem)

CreateBodies ==
    { Body("missing", NoItem), Body("invalid", NoItem), Body("null", NoItem),
      Body("object", NoItem),
      Body("object", Obj1("title", "")),
      Body("object", Obj1("title", "a")),
      Body("object", Obj2("title", "a", "content", "x")),
      Body("object", Obj2("title", "b", "content", "")) }

UpdateBodies ==
    { Body("missing", NoItem), Body("invalid", NoItem), Body("null", NoItem),
      Body("object", NoItem),
      Body("object", Obj1("title", "")),
      Body("object", Obj1("title", "b")),
      Body("object", Obj1("content", "y")),
      Body("object", Obj2("title", "", "content", "y")),
      Body("object", [x \in {"content", "id", "createdAt"} |->
                        IF x = "content" THEN "y"
                        ELSE IF x = "id" THEN Uuid(0) ELSE MaxClock]) }

\* event.pathParameters.id: "" stands for missing path parameters or id.
ReqIds == {""} \cup { Uuid(n) : n \in 1..MaxNotes }

\* ------------------------------------------------------ response helpers
\* op, id, body: the request; status, headers, shape, note, items, error:
\* the response (shape tells what the body string is: "data" for
\* JSON.stringify(data), with data in note or items; "error" for
\* JSON.stringify({ error: message }), with message in error; "empty" for
\* '').  The other fields record what the invocation did: cmds counts the
\* store commands it sent, fault tells that one of them failed, wrote that
\* one of them changed the table.
NoResp ==
    [op |-> "none", id |-> "", body |-> NoBody, status |-> 0,
     headers |-> NoItem, shape |-> "none", note |-> NoItem,
     items |-> {}, error |-> "", read |-> "none", afterDelete |-> FALSE,
     hadPrior |-> FALSE, prior |-> NoItem, cmds |-> 0, fault |-> FALSE,
     handler |-> "", wrote |-> FALSE]

\* The headers of responseHelper.success and responseHelper.error, and of
\* the two responses of the list handler.
Headers ==
    Obj2("Access-Control-Allow-Origin", "*",
         "Access-Control-Allow-Credentials", "true")

\* Variant of Failure: an error response built without the headers object.
FailureNoHeaders(op, id, body, status, message) ==
    [NoResp EXCEPT !.op = op, !.id = id, !.body = body, !.status = status,
                   !.shape = "error", !.error = message]

\* responseHelper.success(data, statusCode) for a handler's request.
Success(op, id, body, status, note) ==
    [NoResp EXCEPT !.op = op, !.id = id, !.body = body, !.status = status,
                   !.headers = Headers, !.shape = "data", !.note = note]

\* responseHelper.error(message, statusCode) for a handler's request.
Failure(op, id, body, status, message) ==
    [NoResp EXCEPT !.op = op, !.id = id, !.body = body, !.status = status,
                   !.headers = Headers, !.shape = "error", !.error = message]

\* responseHelper.cors(): the answer of a handler to an OPTIONS request.
Cors(handler) ==
    [NoResp EXCEPT !.op = "options", !.handler = handler, !.status = 200,
                   !.shape = "empty",
                   !.headers =
                      Headers @@
                      Obj2("Access-Control-Allow-Headers",
                           "Content-Type,X-Amz-Date,Authorization,X-Api-Key,X-Amz-Security-Token",
                           "Access-Control-Allow-Methods",
                           "GET,POST,PUT,DELETE,OPTIONS")]

\* What a response records of the invocation that returns it.
Sent(r, n, failed) == [r EXCEPT !.cmds = n, !.fault = failed]

\* The response of an invocation whose PutCommand, UpdateCommand or
\* DeleteCommand was applied.
Wrote(r) == [r EXCEPT !.wrote = TRUE]

Idle ==
    [op |-> "idle", pc |-> "idle", id |-> "", body |-> NoBody, ts |-> 0,
     item |-> NoItem, exists |-> FALSE, afterDelete |-> FALSE, cmds |-> 0]


\* The first idle slot takes the next invocation (slots are interchangeable).
Free(p) == h[p].pc = "idle" /\ \A q \in Procs : q < p => h[q].pc # "idle"

Without(f, k) == [x \in DOMAIN f \ {k} |-> f[x]]

\* ------------------------------------------------------------ the handlers
TitleRequired == "Title is required"
IdRequired == "Note ID is required"
NotFound == "Note not found"
NoField == "At least one field (title or content) must be provided for update"
BodyMissing == "Request body is missing"
BadJson == "Invalid JSON in request body"
\* `const { title, content } = null` throws a TypeError.
TypeError == "Cannot destructure property 'title' of 'noteData' as it is null."
\* docClient.send rejected.
StoreFault == "store command failed"

\* dbService.createNote, up to the note object: what it throws, or "ok".
CreateNoteCheck(body) ==
    IF body.kind = "null" THEN TypeError
    ELSE IF ~Truthy(body.obj, "title") THEN TitleRequired
    ELSE "ok"

\* Variant of NewNote: `content` instead of `content || ''`, so that an
\* omitted content leaves the item without the attribute.
NewNoteNoDefault(id, obj, ts) ==
    [k \in {"id", "title", "createdAt", "updatedAt"}
            \cup ({"content"} \cap DOMAIN obj) |->
        IF k = "id" THEN id
        ELSE IF k \in {"title", "content"} THEN obj[k]
        ELSE ts]

\* The note object createNote builds: content || ''.
NewNote(id, obj, ts) ==
    [id |-> id, title |-> obj.title,
     content |-> IF Truthy(obj, "content") THEN obj.content ELSE "",
     createdAt |-> ts, updatedAt |-> ts]

\* Variant of CreateStatus: a missing title is answered 422.
CreateStatusUnprocessable(msg) == IF msg = TitleRequired THEN 422 ELSE 500

\* The catch block of the create handler.
CreateStatus(msg) == IF msg = TitleRequired THEN 400 ELSE 500

\* Variant of UpdateNoteCheck: the update data is validated before the result
\* of noteExists is looked at.
UpdateNoteCheckValidateFirst(exists, body) ==
    IF body.kind = "null" THEN TypeError
    ELSE IF ~Truthy(body.obj, "title") /\ "content" \notin DOMAIN body.obj
         THEN NoField
    ELSE IF ~exists THEN NotFound
    ELSE "ok"

\* dbService.updateNote after noteExists has answered: what it throws, or "ok".
UpdateNoteCheck(exists, body) ==
    IF ~exists THEN NotFound
    ELSE IF body.kind = "null" THEN TypeError
    ELSE IF ~Truthy(body.obj, "title") /\ "content" \notin DOMAIN body.obj
         THEN NoField
    ELSE "ok"

\* The catch block of the update handler.
UpdateStatus(msg) ==
    IF msg \in {IdRequired, NoField} THEN 400
    ELSE IF msg = NotFound THEN 404
    ELSE 500

\* The catch block of the delete handler.
DeleteStatus(msg) ==
    IF msg = IdRequired THEN 400
    ELSE IF msg = NotFound THEN 404
    ELSE 500

\* Variant of GetStatus: every error caught is answered as a bad request.
GetStatusBadRequest(msg) == 400

\* The catch block of the get handler.
GetStatus(msg) == IF msg = IdRequired THEN 400 ELSE 500

\* The attribute values of the UpdateExpression: updatedAt always, title and
\* content when the body defines them.
SetValues(obj, ts) ==
    [k \in {"updatedAt"} \cup ({"title", "content"} \cap DOMAIN obj) |->
        IF k = "updatedAt" THEN ts ELSE obj[k]]

\* Variant of UpdateItem: a ConditionExpression keeps the item as it is when
\* its updatedAt is later than the one being written.
UpdateItemIfNewer(tbl, id, obj, ts) ==
    IF id \in DOMAIN tbl /\ "updatedAt" \in DOMAIN tbl[id]
                         /\ tbl[id].updatedAt > ts
    THEN tbl[id]
    ELSE SetValues(obj, ts) @@
            (IF id \in DOMAIN tbl THEN tbl[id] ELSE Obj1("id", id))

\* UpdateCommand on table tbl, with no ConditionExpression and ReturnValues
\* ALL_NEW: the item after the SET, created from the key when it is absent.
UpdateItem(tbl, id, obj, ts) ==
    SetValues(obj, ts) @@ (IF id \in DOMAIN tbl THEN tbl[id] ELSE Obj1("id", id))

\* Items a single Scan returns before it stops with a LastEvaluatedKey (the
\* service ends a page at 1 MB of data).
ScanPage == 1

\* data.Items of one ScanCommand on table tbl: every item when the table
\* fits in a page, else the items of some page.
ScanPages(tbl) ==
    IF Cardinality(DOMAIN tbl) <= ScanPage
    THEN { { tbl[i] : i \in DOMAIN tbl } }
    ELSE { { tbl[i] : i \in S } :
             S \in { T \in SUBSET DOMAIN tbl : Cardinality(T) = ScanPage } }

\* GET /notes
GetAllNotesHandler(p) ==
    /\ Free(p)
    /\ h' = [h EXCEPT ![p] = [Idle EXCEPT !.op = "list", !.pc = "scan"]]
    /\ resp' = NoResp
    /\ UNCHANGED <<store, clock, nextUuid, deleted, origin, mockVars>>

ScanCommand(p, ok) ==
    /\ h[p].pc = "scan"
    /\ \E page \in ScanPages(store) :
          resp' = Sent(IF ok
                       THEN [Success("list", "", NoBody, 200, NoItem)
                                EXCEPT !.items = page]
                       ELSE Failure("list", "", NoBody, 500, StoreFault),
                       h[p].cmds + 1, ~ok)
    /\ h' = [h EXCEPT ![p] = Idle]
    /\ UNCHANGED <<store, clock, nextUuid, deleted, origin, mockVars>>

\* The handlers that answer an OPTIONS request before anything else.
PreflightHandlers == {"get", "create", "update", "delete"}

\* OPTIONS on the route of one of these handlers.
Preflight(p, handler) ==
    /\ Free(p)
    /\ resp' = Cors(handler)
    /\ UNCHANGED <<store, clock, nextUuid, h, deleted, origin, mockVars>>

\* GET /notes/{id}
NoteByIdHandler(p, id) ==
    /\ Free(p)
    /\ IF id = ""
       THEN /\ resp' = Failure("get", id, NoBody, 400, IdRequired)
            /\ UNCHANGED h
       ELSE /\ h' = [h EXCEPT ![p] = [Idle EXCEPT !.op = "get", !.pc = "get",
                                         !.id = id,
                                         !.afterDelete = (id \in deleted)]]
            /\ resp' = NoResp
    /\ UNCHANGED <<store, clock, nextUuid, deleted, origin, mockVars>>

\* dbService.getNoteById: GetCommand; data.Item || null.
GetItem(tbl, id) == IF id \in DOMAIN tbl THEN tbl[id] ELSE NoItem

GetCommand(p, ok) ==
    /\ h[p].pc = "get"
    /\ LET id == h[p].id
           found == id \in DOMAIN store
           r == IF ~ok THEN Failure("get", id, NoBody, GetStatus(StoreFault), StoreFault)
                ELSE IF ~found THEN Failure("get", id, NoBody, 404, NotFound)
                ELSE Success("get", id, NoBody, 200, GetItem(store, id))
       IN resp' = Sent([r EXCEPT !.afterDelete = h[p].afterDelete,
                                 !.read = IF ~ok THEN "fault"
                                          ELSE IF found THEN "present"
                                          ELSE "absent"],
                       h[p].cmds + 1, ~ok)
    /\ h' = [h EXCEPT ![p] = Idle]
    /\ UNCHANGED <<store, clock, nextUuid, deleted, origin, mockVars>>

\* Variant of BodyCheck: the result of JSON.parse is used without the
\* try/catch around it, so a body that does not parse is not rejected here.
BodyCheckNoCatch(body) ==
    IF body.kind = "missing" THEN BodyMissing ELSE "ok"

\* The body checks of the create and update handlers: `!event.body`, then
\* JSON.parse(event.body) in a try/catch.  What is answered with 400, or "ok".
BodyCheck(body) ==
    IF body.kind = "missing" THEN BodyMissing
    ELSE IF body.kind = "invalid" THEN BadJson
    ELSE "ok"

\* POST /notes
CreateNoteHandler(p, body) ==
    /\ Free(p)
    /\ IF BodyCheck(body) # "ok"
       THEN /\ resp' = Failure("create", "", body, 400, BodyCheck(body))
            /\ UNCHANGED <<h, nextUuid>>
       ELSE IF CreateNoteCheck(body) # "ok"
       THEN /\ resp' = Failure("create", "", body,
                               CreateStatus(CreateNoteCheck(body)),
                               CreateNoteCheck(body))
            /\ UNCHANGED <<h, nextUuid>>
       ELSE /\ nextUuid < MaxNotes
            /\ nextUuid' = nextUuid + 1
            /\ h' = [h EXCEPT ![p] =
                        [Idle EXCEPT !.op = "create", !.pc = "put",
                                     !.id = Uuid(nextUuid + 1), !.body = body,
                                     !.ts = clock,
                                     !.item = NewNote(Uuid(nextUuid + 1),
                                                      body.obj, clock)]]
            /\ resp' = NoResp
    /\ UNCHANGED <<store, clock, deleted, origin, mockVars>>

PutCommand(p, ok) ==
    /\ h[p].pc = "put"
    /\ IF ok
       THEN /\ store' = (h[p].id :> h[p].item) @@ store
            /\ origin' = (h[p].id :> h[p].body.obj) @@ origin
            /\ resp' = Wrote(Sent([Success("create", h[p].id, h[p].body, 201,
                                           h[p].item)
                                      EXCEPT !.hadPrior =
                                         (h[p].id \in DOMAIN store \cup deleted)],
                                  h[p].cmds + 1, FALSE))
       ELSE /\ resp' = Sent(Failure("create", h[p].id, h[p].body,
                                    CreateStatus(StoreFault), StoreFault),
                            h[p].cmds + 1, TRUE)
            /\ UNCHANGED <<store, origin>>
    /\ h' = [h EXCEPT ![p] = Idle]
    /\ UNCHANGED <<clock, nextUuid, deleted, mockVars>>

\* PUT /notes/{id}
UpdateNoteHandler(p, id, body) ==
    /\ Free(p)
    /\ IF id = "" \/ BodyCheck(body) # "ok"
       THEN /\ resp' = Failure("update", id, body, 400,
                               IF id = "" THEN IdRequired
                               ELSE BodyCheck(body))
            /\ UNCHANGED h
       ELSE /\ h' = [h EXCEPT ![p] = [Idle EXCEPT !.op = "update",
                                         !.pc = "exists", !.id = id,
                                         !.body = body]]
            /\ resp' = NoResp
    /\ UNCHANGED <<store, clock, nextUuid, deleted, origin, mockVars>>

\* DELETE /notes/{id}
DeleteNoteHandler(p, id) ==
    /\ Free(p)
    /\ IF id = ""
       THEN /\ resp' = Failure("delete", id, NoBody, 400, IdRequired)
            /\ UNCHANGED h
       ELSE /\ h' = [h EXCEPT ![p] = [Idle EXCEPT !.op = "delete",
                                         !.pc = "exists", !.id = id]]
            /\ resp' = NoResp
    /\ UNCHANGED <<store, clock, nextUuid, deleted, origin, mockVars>>

\* dbService.deleteNote after noteExists has answered: what it throws, or "ok".
DeleteNoteCheck(exists) == IF ~exists THEN NotFound ELSE "ok"

\* dbService.noteExists: GetCommand; !!data.Item.  The delete handler goes on
\* to its DeleteCommand without reading anything else.
NoteExists(p, ok) ==
    /\ h[p].pc = "exists"
    /\ LET id == h[p].id
           found == id \in DOMAIN store
           seen == IF found THEN "present" ELSE "absent"
       IN IF ~ok
          THEN /\ resp' = Sent([Failure(h[p].op, id, h[p].body,
                                        IF h[p].op = "update"
                                        THEN UpdateStatus(StoreFault)
                                        ELSE DeleteStatus(StoreFault),
                                        StoreFault)
                                   EXCEPT !.read = "fault"],
                               h[p].cmds + 1, TRUE)
               /\ h' = [h EXCEPT ![p] = Idle]
          ELSE IF h[p].op = "update"
          THEN /\ h' = [h EXCEPT ![p].pc = "checked", ![p].exists = found,
                                 ![p].cmds = @ + 1]
               /\ resp' = NoResp
          ELSE IF DeleteNoteCheck(found) # "ok"
          THEN /\ resp' = Sent([Failure("delete", id, NoBody,
                                        DeleteStatus(DeleteNoteCheck(found)),
                                        DeleteNoteCheck(found))
                                   EXCEPT !.read = seen],
                               h[p].cmds + 1, FALSE)
               /\ h' = [h EXCEPT ![p] = Idle]
          ELSE /\ h' = [h EXCEPT ![p].pc = "delete", ![p].exists = found,
                                 ![p].cmds = @ + 1]
               /\ resp' = NoResp
    /\ UNCHANGED <<store, clock, nextUuid, deleted, origin, mockVars>>

\* Variant of UpdateNoteContinue: the field check is made after the
\* UpdateCommand has been sent, so that a request answered 400 for its
\* fields has already written its updatedAt.
UpdateNoteContinueCheckLast(p) ==
    /\ h[p].pc = "checked"
    /\ LET chk == UpdateNoteCheck(h[p].exists, h[p].body)
       IN IF chk = NoField
          THEN /\ store' = (h[p].id :> UpdateItem(store, h[p].id, h[p].body.obj,
                                                  clock)) @@ store
               /\ resp' = Wrote(Sent([Failure("update", h[p].id, h[p].body,
                                              UpdateStatus(chk), chk)
                                         EXCEPT !.read = "present"],
                                     h[p].cmds + 1, FALSE))
               /\ h' = [h EXCEPT ![p] = Idle]
          ELSE IF chk # "ok"
          THEN /\ resp' = Sent([Failure("update", h[p].id, h[p].body,
                                        UpdateStatus(chk), chk)
                                   EXCEPT !.read = IF h[p].exists
                                                   THEN "present"
                                                   ELSE "absent"],
                               h[p].cmds, FALSE)
               /\ h' = [h EXCEPT ![p] = Idle]
               /\ UNCHANGED store
          ELSE /\ h' = [h EXCEPT ![p].pc = "update", ![p].ts = clock]
               /\ resp' = NoResp
               /\ UNCHANGED store
    /\ UNCHANGED <<clock, nextUuid, deleted, origin, mockVars>>

\* dbService.updateNote from the answer of noteExists to the UpdateCommand.
UpdateNoteContinue(p) ==
    /\ h[p].pc = "checked"
    /\ LET chk == UpdateNoteCheck(h[p].exists, h[p].body)
       IN IF chk # "ok"
          THEN /\ resp' = Sent([Failure("update", h[p].id, h[p].body,
                                        UpdateStatus(chk), chk)
                                   EXCEPT !.read = IF h[p].exists
                                                   THEN "present"
                                                   ELSE "absent"],
                               h[p].cmds, FALSE)
               /\ h' = [h EXCEPT ![p] = Idle]
          ELSE /\ h' = [h EXCEPT ![p].pc = "update", ![p].ts = clock]
               /\ resp' = NoResp
    /\ UNCHANGED <<store, clock, nextUuid, deleted, origin, mockVars>>

UpdateCommand(p, ok) ==
    /\ h[p].pc = "update"
    /\ LET id == h[p].id
           new == UpdateItem(store, id, h[p].body.obj, h[p].ts)
       IN IF ok
          THEN /\ store' = (id :> new) @@ store
               /\ origin' = Without(origin, id)
               /\ resp' = Wrote(Sent([Success("update", id, h[p].body, 200, new)
                                         EXCEPT !.read = "present",
                                                !.hadPrior = (id \in DOMAIN store),
                                                !.prior = GetItem(store, id)],
                                     h[p].cmds + 1, FALSE))
          ELSE /\ resp' = Sent([Failure("update", id, h[p].body,
                                        UpdateStatus(StoreFault), StoreFault)
                                   EXCEPT !.read = "present"],
                               h[p].cmds + 1, TRUE)
               /\ UNCHANGED <<store, origin>>
    /\ h' = [h EXCEPT ![p] = Idle]
    /\ UNCHANGED <<clock, nextUuid, deleted, mockVars>>

DeleteCommand(p, ok) ==
    /\ h[p].pc = "delete"
    /\ LET id == h[p].id
       IN IF ok
          THEN /\ store' = Without(store, id)
               /\ origin' = Without(origin, id)
               /\ deleted' = deleted \cup {id}
               /\ resp' = Wrote(Sent([Success("delete", id, NoBody, 204,
                                              Obj1("message",
                                                   "Note deleted successfully"))
                                         EXCEPT !.read = "present",
                                                !.hadPrior = (id \in DOMAIN store),
                                                !.prior = GetItem(store, id)],
                                     h[p].cmds + 1, FALSE))
          ELSE /\ resp' = Sent([Failure("delete", id, NoBody,
                                        DeleteStatus(StoreFault), StoreFault)
                                   EXCEPT !.read = "present"],
                               h[p].cmds + 1, TRUE)
               /\ UNCHANGED <<store, origin, deleted>>
    /\ h' = [h EXCEPT ![p] = Idle]
    /\ UNCHANGED <<clock, nextUuid, mockVars>>

\* A millisecond passes.
Tick ==
    /\ clock < MaxClock
    /\ clock' = clock + 1
    /\ resp' = NoResp
    /\ UNCHANGED <<store, nextUuid, h, deleted, origin, mockVars>>

\* Seed notes of the fallback store (module load).
MockSeed ==
    << [id |-> "1", title |-> "Welcome to Noter", content |-> "first",
        createdAt |-> 0, updatedAt |-> 0],
       [id |-> "2", title |-> "How to use Noter", content |-> "second",
        createdAt |-> 0, updatedAt |-> 0] >>

NoMockResp ==
    [op |-> "none", id |-> "", ok |-> TRUE, note |-> NoItem, prior |-> NoItem,
     arg |-> NoItem, known |-> {}, list |-> << >>]

\* What the views pass to createNote: a title and a content.
MockCreateInputs ==
    { Obj2("title", "a", "content", "x"), Obj2("title", "", "content", "") }

\* Partial<Note> values passed to updateNote.
MockUpdateInputs ==
    { NoItem, Obj1("title", "b"), Obj1("content", "y"),
      Obj2("title", "", "content", "y"),
      Obj2("id", "2", "createdAt", MaxClock + 1) }

MockReqIds == {"1", "2", "9"} \cup { DateNowString(t) : t \in 0..MaxClock }

\* mockNotesData.findIndex(note => note.id === id); 0 stands for -1.
FindIndex(data, id) ==
    IF \E i \in 1..Len(data) : data[i].id = id
    THEN CHOOSE i \in 1..Len(data) :
            /\ data[i].id = id
            /\ \A j \in 1..(i - 1) : data[j].id # id
    ELSE 0

\* The ids of the notes in the array.
MockIds(data) == { data[i].id : i \in 1..Len(data) }

\* mockNotesData.filter(note => note.id !== id)
FilterOut(data, id) == SelectSeq(data, LAMBDA n : n.id # id)

\* { id: Date.now().toString(), ...noteData, createdAt: now, updatedAt: now }
MockNewNote(noteData, now) ==
    Obj2("createdAt", now, "updatedAt", now)
        @@ noteData @@ Obj1("id", DateNowString(now))

\* { ...mockNotesData[index], ...noteData, updatedAt: now }
MockMerge(old, noteData, now) == Obj1("updatedAt", now) @@ noteData @@ old

mockNotes ==
    /\ mockCalls < MaxMockCalls
    /\ mockCalls' = mockCalls + 1
    /\ mockResp' = [NoMockResp EXCEPT !.op = "list", !.list = mockNotesData,
                                      !.known = MockIds(mockNotesData)]
    /\ UNCHANGED <<store, clock, nextUuid, h, resp, deleted, origin,
                   mockNotesData, svcVars, uiVars>>

mockNoteById(id) ==
    /\ mockCalls < MaxMockCalls
    /\ mockCalls' = mockCalls + 1
    /\ LET i == FindIndex(mockNotesData, id)
       IN mockResp' = IF i = 0
                      THEN [NoMockResp EXCEPT !.op = "get", !.id = id, !.ok = FALSE,
                                              !.known = MockIds(mockNotesData)]
                      ELSE [NoMockResp EXCEPT !.op = "get", !.id = id,
                                              !.note = mockNotesData[i],
                                              !.known = MockIds(mockNotesData)]
    /\ UNCHANGED <<store, clock, nextUuid, h, resp, deleted, origin,
                   mockNotesData, svcVars, uiVars>>

mockCreateNote(noteData) ==
    /\ mockCalls < MaxMockCalls
    /\ mockCalls' = mockCalls + 1
    /\ Len(mockNotesData) < MaxMockNotes
    /\ LET newNote == MockNewNote(noteData, clock)
       IN /\ mockNotesData' = Append(mockNotesData, newNote)
          /\ mockResp' = [NoMockResp EXCEPT
                            !.op = "create", !.id = newNote.id,
                            !.note = newNote, !.arg = noteData,
                            !.known = MockIds(mockNotesData)]
    /\ UNCHANGED <<store, clock, nextUuid, h, resp, deleted, origin, svcVars, uiVars>>

mockUpdateNote(id, noteData) ==
    /\ mockCalls < MaxMockCalls
    /\ mockCalls' = mockCalls + 1
    /\ LET i == FindIndex(mockNotesData, id)
       IN IF i = 0
          THEN /\ mockResp' = [NoMockResp EXCEPT !.op = "update", !.id = id,
                                                 !.ok = FALSE, !.arg = noteData,
                                                 !.known = MockIds(mockNotesData)]
               /\ UNCHANGED mockNotesData
          ELSE /\ mockNotesData' =
                     [mockNotesData EXCEPT
                        ![i] = MockMerge(mockNotesData[i], noteData, clock)]
               /\ mockResp' = [NoMockResp EXCEPT
                                 !.op = "update", !.id = id, !.arg = noteData,
                                 !.prior = mockNotesData[i],
                                 !.known = MockIds(mockNotesData),
                                 !.note = MockMerge(mockNotesData[i], noteData, clock)]
    /\ UNCHANGED <<store, clock, nextUuid, h, resp, deleted, origin, svcVars, uiVars>>

mockDeleteNote(id) ==
    /\ mockCalls < MaxMockCalls
    /\ mockCalls' = mockCalls + 1
    /\ mockNotesData' = FilterOut(mockNotesData, id)
    /\ mockResp' = [NoMockResp EXCEPT !.op = "delete", !.id = id,
                                      !.known = MockIds(mockNotesData)]
    /\ UNCHANGED <<store, clock, nextUuid, h, resp, deleted, origin, svcVars, uiVars>>

\* ---------------------------------------------------- the API service
\* Values of process.env.NODE_ENV; "" stands for an unset variable.
NodeEnvs == {"", "development", "production", "test"}

\* `!process.env.NODE_ENV || process.env.NODE_ENV === 'development'`
FallbackEnabled(env) == env = "" \/ env = "development"

\* The note the backend holds for an id, when it holds one.
RemoteNote(id) == NewNote(id, Obj2("title", "a", "content", "x"), 0)

\* What apiClient.get(`/notes/${id}`) can end with: a response of the get
\* handler, or no response at all (NoResp: the request did not get through).
GetAnswers(id) ==
    { Success("get", id, NoBody, 200, RemoteNote(id)),
      Failure("get", id, NoBody, 404, NotFound),
      Failure("get", id, NoBody, 500, StoreFault),
      NoResp }

\* What apiClient.get('/notes') can end with.
ListAnswers ==
    { [Success("list", "", NoBody, 200, NoItem) EXCEPT !.items = {}],
      [Success("list", "", NoBody, 200, NoItem)
          EXCEPT !.items = {RemoteNote(Uuid(1))}],
      Failure("list", "", NoBody, 500, StoreFault),
      NoResp }

\* axios resolves for a 2xx status and rejects for any other status and
\* when there is no response.
Resolves(answer) == answer.status \in 200..299

\* What apiClient.post('/notes', note) can end with.
CreateAnswers(data) ==
    { Success("create", "", Body("object", data), 201,
              NewNote(Uuid(1), data, 0)),
      Failure("create", "", Body("object", data), 400, TitleRequired),
      Failure("create", "", Body("object", data), 500, StoreFault),
      NoResp }

\* What apiClient.put(`/notes/${id}`, note) can end with.
UpdateAnswers(id, data) ==
    { Success("update", id, Body("object", data), 200,
              UpdateItem(id :> RemoteNote(id), id, data, 1)),
      Failure("update", id, Body("object", data), 404, NotFound),
      Failure("update", id, Body("object", data), 500, StoreFault),
      NoResp }

\* What apiClient.delete(`/notes/${id}`) can end with.
DeleteAnswers(id) ==
    { Success("delete", id, NoBody, 204,
              Obj1("message", "Note deleted successfully")),
      Failure("delete", id, NoBody, 404, NotFound),
      Failure("delete", id, NoBody, 500, StoreFault),
      NoResp }

\* The answers to the request of a mutating call.
MutationAnswers(op, id, data) ==
    IF op = "createNote" THEN CreateAnswers(data)
    ELSE IF op = "updateNote" THEN UpdateAnswers(id, data)
    ELSE DeleteAnswers(id)

\* Values of process.env.REACT_APP_API_URL; "" stands for an unset variable.
ApiUrls == {"", "https://api.example.com/prod"}

\* API_BASE_URL
ApiBaseUrl(url) == IF url = "" THEN "http://localhost:3000" ELSE url

\* The result of a noteService call: ok tells whether the promise resolved,
\* note or list is what it resolved with, answer what its request ended
\* with, sent the number of requests it sent (to the base URL in to),
\* fallback whether it used the fallback store.
NoSvcResp ==
    [op |-> "none", id |-> "", arg |-> NoItem, answer |-> NoResp, ok |-> TRUE,
     note |-> NoItem, list |-> {}, fallback |-> FALSE, known |-> {},
     sent |-> 0, to |-> ""]

\* A call that has sent its one request and got this answer.
Called(op, id, arg, answer) ==
    [NoSvcResp EXCEPT !.op = op, !.id = id, !.arg = arg, !.answer = answer,
                      !.sent = 1, !.to = ApiBaseUrl(apiUrl)]

\* What noteService.getAllNotes ends with.
GetAllNotesResult(answer) ==
    IF Resolves(answer)
    THEN [Called("getAllNotes", "", NoItem, answer) EXCEPT !.list = answer.items]
    ELSE IF FallbackEnabled(nodeEnv)
    THEN [Called("getAllNotes", "", NoItem, answer)
             EXCEPT !.fallback = TRUE,
                    !.known = MockIds(mockNotesData),
                    !.list = { mockNotesData[i] : i \in 1..Len(mockNotesData) }]
    ELSE [Called("getAllNotes", "", NoItem, answer) EXCEPT !.ok = FALSE]

\* What noteService.getNote ends with.
GetNoteResult(id, answer) ==
    LET i == FindIndex(mockNotesData, id)
    IN IF Resolves(answer)
       THEN [Called("getNote", id, NoItem, answer) EXCEPT !.note = answer.note]
       ELSE IF FallbackEnabled(nodeEnv)
       THEN [Called("getNote", id, NoItem, answer)
                EXCEPT !.fallback = TRUE,
                       !.known = MockIds(mockNotesData),
                       !.ok = (i # 0),
                       !.note = IF i = 0 THEN NoItem ELSE mockNotesData[i]]
       ELSE [Called("getNote", id, NoItem, answer) EXCEPT !.ok = FALSE]

\* Variant of MutationResult: the fallback of the catch blocks is not
\* commented out, so a failed request is answered from the fallback store
\* when it is enabled.
MutationResultWithFallback(op, id, data, answer) ==
    IF Resolves(answer)
    THEN [Called(op, id, data, answer)
             EXCEPT !.note = IF op = "deleteNote" THEN NoItem ELSE answer.note]
    ELSE IF FallbackEnabled(nodeEnv)
    THEN [Called(op, id, data, answer) EXCEPT !.fallback = TRUE]
    ELSE [Called(op, id, data, answer) EXCEPT !.ok = FALSE]

\* What noteService.createNote, updateNote and deleteNote end with: the
\* response's data (nothing for deleteNote), or the error rethrown.
MutationResult(op, id, data, answer) ==
    IF Resolves(answer)
    THEN [Called(op, id, data, answer)
             EXCEPT !.note = IF op = "deleteNote" THEN NoItem ELSE answer.note]
    ELSE [Called(op, id, data, answer) EXCEPT !.ok = FALSE]

\* noteService.getAllNotes, its request ending with some answer.
getAllNotes ==
    /\ \E answer \in ListAnswers : svcResp' = GetAllNotesResult(answer)
    /\ UNCHANGED <<backVars, mockNotesData, mockResp, mockCalls, envVars, uiVars>>

\* noteService.getNote
getNote(id) ==
    /\ \E answer \in GetAnswers(id) : svcResp' = GetNoteResult(id, answer)
    /\ UNCHANGED <<backVars, mockNotesData, mockResp, mockCalls, envVars, uiVars>>

\* noteService.createNote
createNote(data) ==
    /\ \E answer \in CreateAnswers(data) :
          svcResp' = MutationResult("createNote", "", data, answer)
    /\ UNCHANGED <<backVars, mockNotesData, mockResp, mockCalls, envVars, uiVars>>

\* noteService.updateNote
updateNote(id, data) ==
    /\ \E answer \in UpdateAnswers(id, data) :
          svcResp' = MutationResult("updateNote", id, data, answer)
    /\ UNCHANGED <<backVars, mockNotesData, mockResp, mockCalls, envVars, uiVars>>

\* noteService.deleteNote
deleteNote(id) ==
    /\ \E answer \in DeleteAnswers(id) :
          svcResp' = MutationResult("deleteNote", id, NoItem, answer)
    /\ UNCHANGED <<backVars, mockNotesData, mockResp, mockCalls, envVars, uiVars>>

\* The table after ScanPage + 1 notes have been created.
FullTable ==
    [id \in { Uuid(n) : n \in 1..(ScanPage + 1) } |-> RemoteNote(id)]

\* ------------------------------------------------------------ the views
FetchNotesFailed == "Failed to fetch notes. Please try again later."
FetchNoteFailed == "Failed to fetch note. Please try again later."
SaveFailed == "Failed to save note. Please try again later."
DeleteFailed == "Failed to delete note. Please try again later."

\* Variant of Caught: the view shows what the error says.
CaughtDetail(message, err) == err.answer.error

\* `catch (err) { setError(message); ... }`: the message a view shows for
\* the error err of a rejected call.
Caught(message, err) == message

\* Home before it is rendered: the initial values of its useState hooks.
HomeUnmounted ==
    [pc |-> "unmounted", loading |-> TRUE, error |-> "", notes |-> {},
     call |-> NoSvcResp]

\* Home is rendered and its effect starts fetchNotes, which waits for
\* noteService.getAllNotes().
HomeMount ==
    /\ home.pc = "unmounted"
    /\ home' = [home EXCEPT !.pc = "awaiting"]
    /\ UNCHANGED <<backVars, mockNotesData, mockResp, mockCalls, svcVars, editor>>

\* fetchNotes from the end of its await: the try block's setNotes and
\* setLoading(false), or the catch block.
HomeAfterFetch(v, r) ==
    IF r.ok
    THEN [v EXCEPT !.pc = "done", !.notes = r.list, !.loading = FALSE,
                   !.call = r]
    ELSE [v EXCEPT !.pc = "done", !.error = Caught(FetchNotesFailed, r),
                   !.loading = FALSE, !.call = r]

\* The request of getAllNotes ends with some answer, and fetchNotes resumes.
fetchNotes ==
    /\ home.pc = "awaiting"
    /\ \E answer \in ListAnswers :
          home' = HomeAfterFetch(home, GetAllNotesResult(answer))
    /\ UNCHANGED <<backVars, mockNotesData, mockResp, mockCalls, svcVars, editor>>

\* NoteEditor before it is rendered.  op, arg: the mutating call started
\* last; inflight: the mutating calls started and not settled; left: how
\* the view was left by navigate('/'); event: the handler that ran last;
\* call: the result of the call that settled in that handler.
EditorUnmounted ==
    [pc |-> "unmounted", id |-> "", title |-> "", content |-> "",
     loading |-> FALSE, saving |-> FALSE, error |-> "", op |-> "",
     arg |-> NoItem, inflight |-> 0, left |-> "", event |-> "",
     call |-> NoSvcResp]

\* The route parameter: "" for /new, else the id of /edit/:id.
EditorIds == {"", "1", "9"}

\* What the user types into the title and content inputs.
Titles == {"", " ", "a"}
Contents == {"", "x"}

\* title.trim(), for the titles above and those of the notes fetched.
Trim(v) == IF v = " " THEN "" ELSE v

\* Variant of ButtonsEnabled: the buttons and inputs are never disabled.
ButtonsAlwaysEnabled(e) == TRUE

\* `disabled={saving}` on the inputs and on the save, cancel and delete
\* buttons.
ButtonsEnabled(e) == ~e.saving

\* The handler that has just run, with no call settled in it.
Ran(e, event) == [e EXCEPT !.event = event, !.call = NoSvcResp]

\* NoteEditor is rendered for the route; for an existing note its effect
\* starts fetchNote, which waits for noteService.getNote(id).
NoteEditorMount(id) ==
    /\ editor.pc = "unmounted"
    /\ editor' = [editor EXCEPT !.id = id,
                                !.loading = (id # ""),
                                !.pc = IF id = "" THEN "form" ELSE "fetching"]
    /\ UNCHANGED <<backVars, mockNotesData, mockResp, mockCalls, svcVars, home>>

\* The request of getNote ends with some answer, and fetchNote resumes.
fetchNote ==
    /\ editor.pc = "fetching"
    /\ \E answer \in GetAnswers(editor.id) :
          LET r == GetNoteResult(editor.id, answer)
          IN editor' =
                IF r.ok
                THEN [editor EXCEPT !.pc = "form", !.title = r.note.title,
                                    !.content = r.note.content,
                                    !.loading = FALSE, !.event = "fetchNote",
                                    !.call = r]
                ELSE [editor EXCEPT !.pc = "form",
                                    !.error = Caught(FetchNoteFailed, r),
                                    !.loading = FALSE, !.event = "fetchNote",
                                    !.call = r]
    /\ UNCHANGED <<backVars, mockNotesData, mockResp, mockCalls, svcVars, home>>

\* onChange of the title input.
setTitle(v) ==
    /\ editor.pc = "form"
    /\ ButtonsEnabled(editor)
    /\ editor' = Ran([editor EXCEPT !.title = v], "setTitle")
    /\ UNCHANGED <<backVars, mockNotesData, mockResp, mockCalls, svcVars, home>>

\* onChange of the content textarea.
setContent(v) ==
    /\ editor.pc = "form"
    /\ ButtonsEnabled(editor)
    /\ editor' = Ran([editor EXCEPT !.content = v], "setContent")
    /\ UNCHANGED <<backVars, mockNotesData, mockResp, mockCalls, svcVars, home>>

\* handleSubmit up to its await: the title check, setSaving(true) and the
\* start of createNote or updateNote.
handleSubmit ==
    /\ editor.pc = "form"
    /\ ButtonsEnabled(editor)
    /\ editor' =
          IF Trim(editor.title) = ""
          THEN Ran([editor EXCEPT !.error = TitleRequired], "handleSubmit")
          ELSE Ran([editor EXCEPT
                      !.saving = TRUE,
                      !.op = IF editor.id = "" THEN "createNote"
                             ELSE "updateNote",
                      !.arg = Obj2("title", editor.title,
                                   "content", editor.content),
                      !.inflight = @ + 1], "handleSubmit")
    /\ UNCHANGED <<backVars, mockNotesData, mockResp, mockCalls, svcVars, home>>

\* Variant of AfterMutation: navigate('/') is called whatever the call
\* ended with.
AfterMutationOptimistic(e, r, message, how, event) ==
    [e EXCEPT !.pc = "left", !.left = how, !.inflight = @ - 1,
              !.event = event, !.call = r]

\* handleSubmit and handleDelete from the end of their await: navigate('/')
\* or the catch block.
AfterMutation(e, r, message, how, event) ==
    IF r.ok
    THEN [e EXCEPT !.pc = "left", !.left = how, !.inflight = @ - 1,
                   !.event = event, !.call = r]
    ELSE [e EXCEPT !.error = Caught(message, r), !.saving = FALSE,
                   !.inflight = @ - 1, !.event = event, !.call = r]

\* The request of createNote or updateNote ends with some answer, and
\* handleSubmit resumes.
handleSubmitSettled ==
    /\ editor.pc = "form"
    /\ editor.inflight > 0
    /\ editor.op \in {"createNote", "updateNote"}
    /\ \E answer \in MutationAnswers(editor.op, editor.id, editor.arg) :
          editor' = AfterMutation(editor,
                                  MutationResult(editor.op, editor.id,
                                                 editor.arg, answer),
                                  SaveFailed, "saved", "handleSubmitSettled")
    /\ UNCHANGED <<backVars, mockNotesData, mockResp, mockCalls, svcVars, home>>

\* handleDelete up to its await; confirmed is the answer to window.confirm.
handleDelete(confirmed) ==
    /\ editor.pc = "form"
    /\ ButtonsEnabled(editor)
    /\ editor.id # ""
    /\ editor' =
          IF ~confirmed
          THEN Ran(editor, "handleDelete")
          ELSE Ran([editor EXCEPT !.saving = TRUE, !.op = "deleteNote",
                                  !.arg = NoItem, !.inflight = @ + 1],
                   "handleDelete")
    /\ UNCHANGED <<backVars, mockNotesData, mockResp, mockCalls, svcVars, home>>

\* The request of deleteNote ends with some answer, and handleDelete
\* resumes.
handleDeleteSettled ==
    /\ editor.pc = "form"
    /\ editor.inflight > 0
    /\ editor.op = "deleteNote"
    /\ \E answer \in MutationAnswers(editor.op, editor.id, editor.arg) :
          editor' = AfterMutation(editor,
                                  MutationResult(editor.op, editor.id,
                                                 editor.arg, answer),
                                  DeleteFailed, "deleted", "handleDeleteSettled")
    /\ UNCHANGED <<backVars, mockNotesData, mockResp, mockCalls, svcVars, home>>

\* The cancel button: navigate('/').
cancel ==
    /\ editor.pc = "form"
    /\ ButtonsEnabled(editor)
    /\ editor' = Ran([editor EXCEPT !.pc = "left", !.left = "cancel"], "cancel")
    /\ UNCHANGED <<backVars, mockNotesData, mockResp, mockCalls, svcVars, home>>

\* The front end as it is loaded, whatever the table holds.
FrontEndInit ==
    /\ clock = 0
    /\ h = [p \in Procs |-> Idle]
    /\ resp = NoResp
    /\ deleted = {}
    /\ origin = NoItem
    /\ mockNotesData = MockSeed
    /\ mockResp = NoMockResp
    /\ mockCalls = 0
    /\ svcResp = NoSvcResp
    /\ home = HomeUnmounted
    /\ editor = EditorUnmounted

Init ==
    /\ store = NoItem
    /\ nextUuid = 0
    /\ nodeEnv = "development"
    /\ apiUrl = ""
    /\ FrontEndInit

Next ==
    \/ \E p \in Procs : GetAllNotesHandler(p)
    \/ \E p \in Procs, ok \in BOOLEAN : ScanCommand(p, ok)
    \/ \E p \in Procs, handler \in PreflightHandlers : Preflight(p, handler)
    \/ \E p \in Procs, id \in ReqIds : NoteByIdHandler(p, id)
    \/ \E p \in Procs, ok \in BOOLEAN : GetCommand(p, ok)
    \/ \E p \in Procs, body \in CreateBodies : CreateNoteHandler(p, body)
    \/ \E p \in Procs, ok \in BOOLEAN : PutCommand(p, ok)
    \/ \E p \in Procs, id \in ReqIds, body \in UpdateBodies :
          UpdateNoteHandler(p, id, body)
    \/ \E p \in Procs, id \in ReqIds : DeleteNoteHandler(p, id)
    \/ \E p \in Procs, ok \in BOOLEAN : NoteExists(p, ok)
    \/ \E p \in Procs : UpdateNoteContinue(p)
    \/ \E p \in Procs, ok \in BOOLEAN : UpdateCommand(p, ok)
    \/ \E p \in Procs, ok \in BOOLEAN : DeleteCommand(p, ok)
    \/ Tick

Spec == Init /\ [][Next]_vars

\* The fallback store alone, as the API service drives it.
MockNext ==
    \/ mockNotes
    \/ \E id \in MockReqIds : mockNoteById(id)
    \/ \E noteData \in MockCreateInputs : mockCreateNote(noteData)
    \/ \E id \in MockReqIds, noteData \in MockUpdateInputs :
          mockUpdateNote(id, noteData)
    \/ \E id \in MockReqIds : mockDeleteNote(id)
    \/ Tick

MockSpec == Init /\ [][MockNext]_vars

\* The list and delete handlers over a table that already holds more notes
\* than one Scan page returns.
ListInit ==
    /\ store = FullTable
    /\ nextUuid = ScanPage + 1
    /\ nodeEnv = "development"
    /\ apiUrl = ""
    /\ FrontEndInit

ListNext ==
    \/ \E p \in Procs : GetAllNotesHandler(p)
    \/ \E p \in Procs, ok \in BOOLEAN : ScanCommand(p, ok)
    \/ \E p \in Procs, id \in DOMAIN FullTable : DeleteNoteHandler(p, id)
    \/ \E p \in Procs, ok \in BOOLEAN : NoteExists(p, ok)
    \/ \E p \in Procs, ok \in BOOLEAN : DeleteCommand(p, ok)
    \/ Tick

ListSpec == ListInit /\ [][ListNext]_vars

\* noteService's reads, in every build mode, against a backend that answers
\* in every way the handlers can.
ServiceInit ==
    /\ store = NoItem
    /\ nextUuid = 0
    /\ nodeEnv \in NodeEnvs
    /\ apiUrl \in ApiUrls
    /\ FrontEndInit

ServiceNext ==
    \/ getAllNotes
    \/ \E id \in MockReqIds : getNote(id)
    \/ \E data \in MockCreateInputs : createNote(data)
    \/ \E id \in MockReqIds, data \in MockCreateInputs : updateNote(id, data)
    \/ \E id \in MockReqIds : deleteNote(id)
    \/ Tick

ServiceSpec == ServiceInit /\ [][ServiceNext]_vars

\* The Home and NoteEditor views over noteService, in every build, with a
\* backend that answers in every way the handlers can.
UiInit ==
    /\ store = NoItem
    /\ nextUuid = 0
    /\ nodeEnv \in NodeEnvs
    /\ apiUrl \in ApiUrls
    /\ FrontEndInit

UiNext ==
    \/ HomeMount
    \/ fetchNotes
    \/ \E id \in EditorIds : NoteEditorMount(id)
    \/ fetchNote
    \/ \E v \in Titles : setTitle(v)
    \/ \E v \in Contents : setContent(v)
    \/ handleSubmit
    \/ handleSubmitSettled
    \/ \E confirmed \in BOOLEAN : handleDelete(confirmed)
    \/ handleDeleteSettled
    \/ cancel

UiSpec == UiInit /\ [][UiNext]_vars

\* A request that has been sent ends, with a response or without one, and
\* the function waiting for it resumes.
UiFairSpec == UiSpec /\ WF_vars(fetchNotes)


\* ------------------------------------------------------------------ claims

\* C1: a get, update or delete whose existence read finds no record for the
\* id responds 404 Note not found, whatever the body; it never succeeds.
C1_AbsentIdNotFound ==
    (resp.op \in {"get", "update", "delete"} /\ resp.read = "absent")
        => (resp.status = 404 /\ resp.error = NotFound /\ resp.note = NoItem)

\* C1 witness: an update carrying a content, for an id that is not in the
\* table, has been answered 404.
C1_Witness ==
    /\ resp.op = "update"
    /\ resp.read = "absent"
    /\ "content" \in DOMAIN resp.body.obj
    /\ resp.id \notin DOMAIN store
    /\ resp.status = 404

\* C2: a get invoked after a delete of the same id has responded with
\* success (ids are never created twice) responds 404, unless its store
\* command fails.
C2_GetAfterDeleteNotFound ==
    (resp.op = "get" /\ resp.afterDelete /\ resp.read # "fault")
        => resp.status = 404

\* C3: every record present in the table has all five fields.
C3_NoPartialRecords ==
    \A id \in DOMAIN store : DOMAIN store[id] = Fields

\* C4: a created note's id differs from the id of every note created before
\* it and its createdAt equals its updatedAt, for the create handler and for
\* the fallback store's create.
C4_CreateIdUnique ==
    /\ (resp.op = "create" /\ resp.status = 201)
          => (~resp.hadPrior /\ resp.note.createdAt = resp.note.updatedAt)
    /\ mockResp.op = "create"
          => (/\ mockResp.id \notin mockResp.known
              /\ mockResp.note.createdAt = mockResp.note.updatedAt)

\* C5: a successful update of an existing note that supplies only a content
\* returns the note with that content, every other field but updatedAt as it
\* was, and an updatedAt strictly greater than before.
C5_ContentOnlyUpdate ==
    (/\ resp.op = "update"
     /\ resp.status = 200
     /\ resp.hadPrior
     /\ DOMAIN resp.body.obj = {"content"})
        => (/\ resp.note.content = resp.body.obj.content
            /\ \A k \in DOMAIN resp.prior \ {"content", "updatedAt"} :
                  k \in DOMAIN resp.note /\ resp.note[k] = resp.prior[k]
            /\ resp.note.updatedAt > resp.prior.updatedAt)

\* C6: a successful update leaves the note's id and createdAt as they were,
\* whatever the body carries, in the update handler and in the fallback
\* store's update.
C6_UpdateKeepsIdCreatedAt ==
    /\ (resp.op = "update" /\ resp.status = 200 /\ resp.hadPrior)
          => \A k \in DOMAIN resp.prior \cap {"id", "createdAt"} :
                k \in DOMAIN resp.note /\ resp.note[k] = resp.prior[k]
    /\ (mockResp.op = "update" /\ mockResp.ok)
          => (/\ mockResp.note.id = mockResp.prior.id
              /\ mockResp.note.createdAt = mockResp.prior.createdAt)

\* C7: no record in the table has an empty title (a consequence of: every
\* note's title is a non-empty string).
C7_TitleNonEmpty ==
    \A id \in DOMAIN store :
        "title" \in DOMAIN store[id] => store[id].title # ""

\* C8: a create whose body parses as JSON (null included) and carries no
\* title or an empty one is answered 400.
C8_CreateWithoutTitleRejected ==
    (/\ resp.op = "create"
     /\ resp.body.kind \in {"null", "object"}
     /\ ~Truthy(resp.body.obj, "title"))
        => resp.status = 400

\* C9: an update with an id and a parsable body that supplies neither title
\* nor content is answered 400, whether or not the note exists (unless a
\* store command fails).
C9_EmptyUpdateRejected ==
    (/\ resp.op = "update"
     /\ resp.id # ""
     /\ resp.body.kind \in {"null", "object"}
     /\ DOMAIN resp.body.obj \cap {"title", "content"} = {}
     /\ resp.read # "fault")
        => resp.status = 400

\* C10: a get of an id returned by create, with no update or delete of that
\* id applied in between, returns a note with the input's title and the
\* input's content, or "" when the input had no content (unless the get's
\* store command fails).
C10_RoundTrip ==
    (resp.op = "get" /\ resp.id \in DOMAIN origin /\ resp.read # "fault")
        => (/\ resp.status = 200
            /\ {"title", "content"} \subseteq DOMAIN resp.note
            /\ resp.note.title = origin[resp.id].title
            /\ resp.note.content =
                  IF "content" \in DOMAIN origin[resp.id]
                  THEN origin[resp.id].content ELSE "")

\* C10 witness: a note created without a content has been read back with
\* content "".
C10_Witness ==
    /\ resp.op = "get"
    /\ resp.status = 200
    /\ resp.id \in DOMAIN origin
    /\ "content" \notin DOMAIN origin[resp.id]
    /\ resp.note.content = ""
    /\ resp.note.title = "a"


\* C11: every record in the table carries a createdAt and an updatedAt, and
\* its createdAt is not later than its updatedAt.
C11_CreatedNotAfterUpdated ==
    \A id \in DOMAIN store :
        /\ {"createdAt", "updatedAt"} \subseteq DOMAIN store[id]
        /\ store[id].createdAt <= store[id].updatedAt

\* The part of C11 that holds: a record that carries a createdAt has an
\* updatedAt that is not earlier.
CreatedNotAfterUpdatedWhenPresent ==
    \A id \in DOMAIN store :
        "createdAt" \in DOMAIN store[id]
            => store[id].createdAt <= store[id].updatedAt

\* C14: an update whose existence read found the note, whose body passes
\* the checks and whose store commands do not fail responds 200, whatever
\* other update of the same note is in flight or wrote before it; right
\* after its write the table holds, for every field it supplies, the value
\* it supplied (so of two such updates the one written last prevails).
C14_LastWriterWins ==
    (/\ resp.op = "update"
     /\ resp.read = "present"
     /\ ~resp.fault
     /\ UpdateNoteCheck(TRUE, resp.body) = "ok")
        => (/\ resp.status = 200
            /\ resp.id \in DOMAIN store
            /\ \A k \in DOMAIN resp.body.obj \cap {"title", "content"} :
                  /\ k \in DOMAIN store[resp.id]
                  /\ store[resp.id][k] = resp.body.obj[k])

\* C14 witness: an update of an existing note has written its title and
\* responded 200 while another update of the same note, with another title,
\* has passed its checks and is about to send its UpdateCommand.
C14_Witness ==
    /\ resp.op = "update"
    /\ resp.status = 200
    /\ resp.hadPrior
    /\ "title" \in DOMAIN resp.body.obj
    /\ store[resp.id].title = resp.body.obj.title
    /\ \E q \in Procs :
          /\ h[q].op = "update"
          /\ h[q].pc = "update"
          /\ h[q].id = resp.id
          /\ "title" \in DOMAIN h[q].body.obj
          /\ h[q].body.obj.title # resp.body.obj.title

\* C15: a create or update request whose body is absent or does not parse
\* is answered 400 by an invocation that sent no store command; no
\* invocation with such a body gets past the handler's checks.
C15_BadBodyRejected ==
    /\ (resp.op \in {"create", "update"}
            /\ resp.body.kind \in {"missing", "invalid"})
          => (resp.status = 400 /\ resp.cmds = 0)
    /\ \A p \in Procs :
          h[p].op \in {"create", "update"}
              => h[p].body.kind \notin {"missing", "invalid"}

\* C15 witness: an update of a note that is in the table, with a body that
\* does not parse, has been answered 400 without a store command.
C15_Witness ==
    /\ resp.op = "update"
    /\ resp.id \in DOMAIN store
    /\ resp.body.kind = "invalid"
    /\ resp.status = 400
    /\ resp.error = BadJson
    /\ resp.cmds = 0

\* C16: the response of an invocation one of whose store commands failed
\* has status 500 and an error body.
C16_StoreFaultIs500 ==
    resp.fault
        => (resp.status = 500 /\ resp.shape = "error" /\ resp.error # "")

\* C16 witness: a get whose GetCommand failed has been answered 500.
C16_Witness ==
    /\ resp.op = "get"
    /\ resp.fault
    /\ resp.cmds = 1
    /\ resp.status = 500
    /\ resp.error = StoreFault

\* C17: a delete that is answered with a success status is answered 204
\* with an empty body.
C17_DeleteNoBody ==
    (resp.op = "delete" /\ resp.status \in 200..299)
        => (resp.status = 204 /\ resp.shape = "empty")

\* The statuses the interface table lists for each handler.
TableStatuses(handler) ==
    IF handler = "list" THEN {200, 500}
    ELSE IF handler = "get" THEN {200, 404, 400}
    ELSE IF handler = "create" THEN {201, 400, 500}
    ELSE IF handler = "update" THEN {200, 400, 404, 500}
    ELSE {204, 400, 404, 500}

\* Every response with a failure status has a body { error: message }.
FailureShape ==
    resp.status >= 400 => (resp.shape = "error" /\ resp.error # "")

\* C18 as stated: every response of a handler has a status of the table's
\* row for that handler, and every failure response has the error shape.
C18_StatusTable ==
    /\ resp.op \in {"list", "get", "create", "update", "delete"}
          => resp.status \in TableStatuses(resp.op)
    /\ resp.op = "options" => resp.status \in TableStatuses(resp.handler)
    /\ FailureShape

\* C18 amended: the get handler also answers 500, and an OPTIONS request is
\* answered 200 with an empty body by the get, create, update and delete
\* handlers; every other response has a status of the table's row, and
\* every failure response has the error shape.
C18_StatusTableAmended ==
    /\ resp.op \in {"list", "create", "update", "delete"}
          => resp.status \in TableStatuses(resp.op)
    /\ resp.op = "get" => resp.status \in TableStatuses("get") \cup {500}
    /\ resp.op = "options" => (resp.status = 200 /\ resp.shape = "empty")
    /\ FailureShape

\* C18 witness: a get has been answered 500 with an error body.
C18_Witness ==
    /\ resp.op = "get"
    /\ resp.status = 500
    /\ resp.shape = "error"
    /\ resp.error = StoreFault

\* C19: every response carries Access-Control-Allow-Origin: *.
C19_AllowOriginOnEveryResponse ==
    resp.op # "none"
        => (/\ "Access-Control-Allow-Origin" \in DOMAIN resp.headers
            /\ resp.headers["Access-Control-Allow-Origin"] = "*")

\* C19 witness: an error response of the update handler (a 404) carries the
\* header.
C19_Witness ==
    /\ resp.op = "update"
    /\ resp.status = 404
    /\ resp.shape = "error"
    /\ "Access-Control-Allow-Origin" \in DOMAIN resp.headers
    /\ resp.headers["Access-Control-Allow-Origin"] = "*"

\* The kind of outcome of a handler's checks: success, not found, or a
\* rejected request.
OutcomeKind(chk) ==
    IF chk = "ok" THEN "ok" ELSE IF chk = NotFound THEN NotFound ELSE "BadRequest"

\* C12: each call of the fallback store ends in the kind of outcome the
\* handlers' checks give for the same call on the same notes, and a note it
\* returns has the title and the content the handlers' note would have.
C12_MockMirrorsHandlers ==
    LET known == mockResp.id \in mockResp.known
        kind == IF mockResp.ok THEN "ok" ELSE NotFound
        body == Body("object", mockResp.arg)
    IN /\ mockResp.op = "get" => kind = OutcomeKind(DeleteNoteCheck(known))
       /\ mockResp.op = "delete" => kind = OutcomeKind(DeleteNoteCheck(known))
       /\ mockResp.op = "create"
             => (/\ kind = OutcomeKind(CreateNoteCheck(body))
                 /\ mockResp.ok =>
                       \A k \in {"title", "content"} :
                          /\ k \in DOMAIN mockResp.note
                          /\ mockResp.note[k] = NewNote("", mockResp.arg, 0)[k])
       /\ mockResp.op = "update"
             => (/\ kind = OutcomeKind(UpdateNoteCheck(known, body))
                 /\ mockResp.ok =>
                       \A k \in {"title", "content"} :
                          mockResp.note[k] =
                             UpdateItem(mockResp.id :> mockResp.prior,
                                        mockResp.id, mockResp.arg, 0)[k])

\* C13: a getNote whose backend answer is 404, or that consults the
\* fallback store while it holds no note with the id, fails and returns no
\* note; fallback data is never returned in place of a 4xx answer of the
\* backend.
C13_FallbackNeverMasks ==
    svcResp.op = "getNote"
        => (/\ (svcResp.answer.status = 404
                   \/ (svcResp.fallback /\ svcResp.id \notin svcResp.known))
                  => (~svcResp.ok /\ svcResp.note = NoItem)
            /\ (svcResp.fallback /\ svcResp.ok)
                  => svcResp.answer.status \notin 400..499)

\* C20: a list whose ScanCommand does not fail responds 200 with exactly
\* the items of the table (none when the table is empty), and the fallback
\* store's list returns its whole array.
C20_ListReturnsStore ==
    /\ (resp.op = "list" /\ ~resp.fault)
          => (/\ resp.status = 200
              /\ resp.shape = "data"
              /\ resp.items = { store[i] : i \in DOMAIN store })
    /\ mockResp.op = "list" => mockResp.list = mockNotesData

\* The part of C20 about the empty table: it is listed as an empty
\* sequence with status 200.
ListOfEmptyTable ==
    (resp.op = "list" /\ ~resp.fault /\ DOMAIN store = {})
        => (resp.status = 200 /\ resp.items = {})

\* C23: an update or delete that writes never adds a record: the id of a
\* successful update is in the table at the moment its UpdateCommand is
\* applied.
C23_OnlyCreateAddsRecords ==
    (resp.op \in {"update", "delete"} /\ resp.wrote)
        => (resp.hadPrior \/ resp.id \notin DOMAIN store)

\* C24: a delete that responds with success removed a record: the id was
\* in the table at the moment its DeleteCommand was applied (so of the
\* deletes of one created note at most one succeeds; the others get 404).
C24_OneDeletePerNote ==
    (resp.op = "delete" /\ resp.status \in 200..299) => resp.hadPrior

\* C25: an invocation answered 400 has sent no store command, and one
\* answered with a success status or with 404 has sent exactly one.
C25_OneCommandPerInvocation ==
    resp.op \in {"list", "get", "create", "update", "delete"}
        => (/\ resp.status = 400 => resp.cmds = 0
            /\ resp.status \in (200..299) \cup {404} => resp.cmds = 1)

\* C29: an invocation answered 400 or 404 has changed nothing in the table.
C29_RejectedWritesNothing ==
    resp.status \in {400, 404} => ~resp.wrote

\* C29 witness: an update of a note that is in the table, with neither
\* title nor content, has been answered 400 after its existence read, and
\* the note is as it was created.
C29_Witness ==
    /\ resp.op = "update"
    /\ resp.status = 400
    /\ resp.error = NoField
    /\ resp.cmds = 1
    /\ ~resp.wrote
    /\ resp.id \in DOMAIN origin
    /\ store[resp.id] = NewNote(resp.id, origin[resp.id], store[resp.id].createdAt)

\* C21: the backend a noteService call uses is chosen by REACT_APP_API_URL
\* alone: without it the call sends no request, and with it the call does
\* not use the fallback store.
C21_BackendByUrlAlone ==
    svcResp.op # "none"
        => IF apiUrl = "" THEN svcResp.sent = 0 ELSE ~svcResp.fallback

\* C22: createNote, updateNote and deleteNote send at most one request, and
\* when it fails the call fails: its promise rejects, nothing is taken from
\* the fallback store and the fallback store is as it was.
C22_FailedMutationFails ==
    svcResp.op \in {"createNote", "updateNote", "deleteNote"}
        => /\ svcResp.sent <= 1
           /\ ~Resolves(svcResp.answer)
                 => (~svcResp.ok /\ ~svcResp.fallback /\ svcResp.note = NoItem)
           /\ mockNotesData = MockSeed

\* C22 witness: an updateNote whose request was answered 500 has failed, in
\* a build where getNote and getAllNotes would have fallen back.
C22_Witness ==
    /\ svcResp.op = "updateNote"
    /\ svcResp.answer.status = 500
    /\ svcResp.sent = 1
    /\ ~svcResp.ok
    /\ FallbackEnabled(nodeEnv)

\* C26: the editor navigates back after a save or a delete only when the
\* call has succeeded, never while the call is in flight; when the call has
\* failed the editor stays on the form, shows the failure message of the
\* operation and has saving = false.
C26_NavigateOnlyAfterSuccess ==
    /\ editor.left \in {"saved", "deleted"}
          => /\ editor.call.op \in {"createNote", "updateNote", "deleteNote"}
             /\ editor.call.ok
             /\ Resolves(editor.call.answer)
    /\ editor.inflight > 0 => editor.left = ""
    /\ (editor.event \in {"handleSubmitSettled", "handleDeleteSettled"}
        /\ ~editor.call.ok)
          => /\ editor.pc = "form"
             /\ editor.left = ""
             /\ ~editor.saving
             /\ editor.error = IF editor.event = "handleSubmitSettled"
                               THEN SaveFailed ELSE DeleteFailed

\* C26 witness: the delete of the note being edited has failed with 404,
\* and the editor is still on the form with the delete message.
C26_Witness ==
    /\ editor.event = "handleDeleteSettled"
    /\ editor.call.op = "deleteNote"
    /\ editor.call.answer.status = 404
    /\ ~editor.call.ok
    /\ editor.pc = "form"
    /\ editor.error = DeleteFailed
    /\ ~editor.saving

\* C27: when the request of getAllNotes has failed, getAllNotes has failed
\* or, only with no REACT_APP_API_URL set (the offline mode), has returned
\* the fallback notes; Home ends with loading = false and with an error
\* exactly when getAllNotes has failed; and a Home that waits for
\* getAllNotes eventually has loading = false.
C27_ListFailureReachesHome ==
    /\ [](home.pc = "done"
            => /\ ~home.loading
               /\ home.error # "" <=> ~home.call.ok
               /\ (~Resolves(home.call.answer) /\ home.call.ok)
                     => (home.call.fallback /\ apiUrl = ""))
    /\ (home.pc = "awaiting") ~> ~home.loading

\* The parts of C27 that do not depend on what selects the fallback.
HomeSettles ==
    /\ [](home.pc = "done"
            => /\ ~home.loading
               /\ home.error # "" <=> ~home.call.ok
               /\ (~Resolves(home.call.answer) /\ home.call.ok)
                     => (home.call.fallback /\ FallbackEnabled(nodeEnv)))
    /\ (home.pc = "awaiting") ~> ~home.loading

\* The messages the views can show.
ViewMessages ==
    {FetchNotesFailed, FetchNoteFailed, TitleRequired, SaveFailed, DeleteFailed}

\* C28: the message a view shows is one of a fixed set of strings, and
\* after a failed call it is the string of the operation, whatever the
\* error says.
C28_GenericMessages ==
    /\ home.error \in ViewMessages \cup {""}
    /\ editor.error \in ViewMessages \cup {""}
    /\ (home.pc = "done" /\ ~home.call.ok) => home.error = FetchNotesFailed
    /\ (editor.event = "fetchNote" /\ ~editor.call.ok)
          => editor.error = FetchNoteFailed
    /\ (editor.event = "handleSubmitSettled" /\ ~editor.call.ok)
          => editor.error = SaveFailed
    /\ (editor.event = "handleDeleteSettled" /\ ~editor.call.ok)
          => editor.error = DeleteFailed

\* C28 witness: a save has been answered 500 with the backend's own error
\* text, and the editor shows the save message.
C28_Witness ==
    /\ editor.event = "handleSubmitSettled"
    /\ editor.call.answer.status = 500
    /\ editor.call.answer.error = StoreFault
    /\ editor.error = SaveFailed

\* C30: an editor has at most one mutating call in flight, and has
\* saving = true while it is; a submit whose title is empty after trimming
\* has started no call.
C30_OneCallInFlight ==
    /\ editor.inflight <= 1
    /\ editor.inflight = 1 => editor.saving
    /\ (editor.event = "handleSubmit" /\ Trim(editor.title) = "")
          => /\ editor.inflight = 0
             /\ ~editor.saving
             /\ editor.error = TitleRequired

\* C30 witness: an update of the note being edited is in flight after a
\* save that had failed.
C30_Witness ==
    /\ editor.event = "handleSubmit"
    /\ editor.op = "updateNote"
    /\ editor.inflight = 1
    /\ editor.saving
    /\ editor.error = SaveFailed

=============================================================================
